---- MODULE Spec2Model ----
(***************************************************************************)
(* Model of applications/finetune-embedding/main.py:                       *)
(*   - StratifiedSampler (lines 29-63), with the stratified shuffle split  *)
(*     it calls at lines 51-57 modelled by what that routine does with     *)
(*     n_splits, test_size = 0.5 and the label vector it is handed;        *)
(*   - objective(trial) (lines 66-158) and the module-level study          *)
(*     (lines 161-170).                                                    *)
(* Specifications: SamplerSpec for one sampler instance (IterSpec: its     *)
(* iteration alone), Spec for the search run.                              *)
(***************************************************************************)
EXTENDS Integers, Sequences, FiniteSets, TLC

VARIABLES
    \* ---- one StratifiedSampler instance
    class_vector,   \* self.class_vector: the labels, position p holds index p-1
    batch_size,     \* the constructor's batch_size argument (not stored by the object)
    n_splits,       \* self.n_splits
    it_result,      \* what the last __iter__ call produced
    it_calls,       \* number of __iter__ calls so far (capped at MaxCalls)
    len_result,     \* what the last __len__ call returned (NotCalled before)
    \* ---- the search run
    pc,             \* where the script is: in the driver's loop, inside objective, ...
    trials,         \* study.trials: one record per trial the driver has created
    best_trial,     \* the driver's best-trial record: an index into trials, 0 = none
    calls,          \* the engine calls made so far by the current objective call
    max_epochs_arg, \* max_epochs handed to the trainer of the current objective call
    test_results,   \* test_results of the current objective call
    built,          \* how many (datasets, loaders, sampler, model) sets were constructed
    cur_obj,        \* the set the current objective call constructed (0 = none yet)
    fit_obj,        \* per trial, the set that was handed to trainer.fit
    report          \* what lines 166-170 printed (NoReport before)

svars == <<class_vector, batch_size, n_splits, it_result, it_calls, len_result>>

dvars == <<pc, trials, best_trial, calls, max_epochs_arg, test_results, built,
           cur_obj, fit_obj, report>>

vars == <<svars, dvars>>

\* ------------------------------------------------------------------ bounds
MaxN == 5          \* longest label vector
NumClasses == 2    \* labels are drawn from 0 .. NumClasses-1
MaxB == 3          \* largest batch size
MaxCalls == 2      \* __iter__ calls counted up to this many
MaxF1 == 2         \* the test metrics take the levels 0 .. MaxF1
BaseF1 == 1        \* the test_f1 of the baseline outcome
MaxVaried == 1     \* at most this many trials of a run differ from the baseline outcome

NotCalled == -1

\* ------------------------------------------------------------------ helpers
RECURSIVE SumOver(_, _)
SumOver(f, S) ==
    IF S = {} THEN 0
    ELSE LET x == CHOOSE x \in S : TRUE IN f[x] + SumOver(f, S \ {x})

\* all orderings of a finite set, as sequences (numpy's rng.permutation)
RECURSIVE Perms(_)
Perms(S) ==
    IF S = {} THEN {<<>>}
    ELSE UNION {{<<x>> \o p : p \in Perms(S \ {x})} : x \in S}

Range(s) == {s[i] : i \in 1..Len(s)}

\* ------------------------------------------------------------------ sampler
\* __init__, line 44: int(class_vector.size(0) / batch_size)
NSplitsOf(N, B) == N \div B

\* the classes of y and how many members each has (np.unique / np.bincount)
ClassesOf(y) == Range(y)
ClassCounts(y) == [c \in ClassesOf(y) |-> Cardinality({p \in 1..Len(y) : y[p] = c})]

\* indices (0-based, as the split returns them) of the members of class c
ClassIndices(y, c) == {p - 1 : p \in {q \in 1..Len(y) : y[q] = c}}

\* The per-class draw sizes the split computes for n_draws draws out of
\* counts: each class gets floor(counts[c] * n_draws / total), and the draws
\* still missing go to the classes with the largest remainders, ties broken
\* at random.  The result is the set of all vectors the tie-break can give.
ApproximateMode(counts, n_draws) ==
    LET cls     == DOMAIN counts
        total   == SumOver(counts, cls)
        floored == [c \in cls |-> (counts[c] * n_draws) \div total]
        rem     == [c \in cls |-> (counts[c] * n_draws) % total]
        need    == n_draws - SumOver(floored, cls)
    IN  IF total = 0 THEN {floored}
        ELSE { [c \in cls |-> floored[c] + (IF c \in S THEN 1 ELSE 0)] :
                 S \in { T \in SUBSET cls :
                           /\ Cardinality(T) = need
                           /\ \A c \in T, d \in cls \ T : rem[c] >= rem[d] } }

\* test_size = 0.5 (line 51): n_test = ceil(0.5 * N), n_train = N - n_test
NTest(N) == (N + 1) \div 2
NTrain(N) == N - NTest(N)

\* the sets of indices that hold k[c] members of every class c, out of pool
PickPerClass(y, k, pool) ==
    { T \in SUBSET pool :
        \A c \in DOMAIN k : Cardinality(T \cap ClassIndices(y, c)) = k[c] }

\* what the stratified shuffle split rejects before it yields anything
SplitRejects(y) ==
    LET N == Len(y)
        counts == ClassCounts(y)
    IN  \/ NTrain(N) = 0
        \/ \E c \in DOMAIN counts : counts[c] < 2
        \/ NTrain(N) < Cardinality(ClassesOf(y))
        \/ NTest(N) < Cardinality(ClassesOf(y))

\* one (train, test) pair of the split, every outcome of its random choices
SplitPairs(y) ==
    LET N == Len(y)
        counts == ClassCounts(y)
        idx == {p - 1 : p \in 1..N}
    IN  UNION { UNION { UNION { { <<tr, te>> :
                    tr \in Perms(T),
                    te \in UNION {Perms(U) : U \in PickPerClass(y, t_i, idx \ T)} } :
                  T \in PickPerClass(y, n_i, idx) } :
                t_i \in ApproximateMode([c \in DOMAIN counts |-> counts[c] - n_i[c]],
                                        NTest(N)) } :
              n_i \in ApproximateMode(counts, NTrain(N)) }

\* gen_sample_array as it would be with a plain (unstratified) shuffle split
GenSampleArrayUnstratified(y, ns) ==
    IF SplitRejects(y) THEN {[kind |-> "ValueError", indices |-> <<>>]}
    ELSE IF ns < 1 THEN {[kind |-> "StopIteration", indices |-> <<>>]}
    ELSE {[kind |-> "indices", indices |-> p] : p \in Perms({q - 1 : q \in 1..Len(y)})}

\* gen_sample_array as it would be if it stacked the train half twice
GenSampleArrayTrainTwice(y, ns) ==
    IF SplitRejects(y) THEN {[kind |-> "ValueError", indices |-> <<>>]}
    ELSE IF ns < 1 THEN {[kind |-> "StopIteration", indices |-> <<>>]}
    ELSE {[kind |-> "indices", indices |-> pr[1] \o pr[1]] : pr \in SplitPairs(y)}

\* gen_sample_array as it would be if the split refused fewer than 2 splits
GenSampleArrayNeedsTwo(y, ns) ==
    IF SplitRejects(y) \/ ns < 2 THEN {[kind |-> "ValueError", indices |-> <<>>]}
    ELSE {[kind |-> "indices", indices |-> pr[1] \o pr[2]] : pr \in SplitPairs(y)}

\* gen_sample_array, lines 47-57: the first pair of s.split(X, y), stacked.
\* With n_splits = 0 the split yields nothing and next() raises StopIteration.
GenSampleArray(y, ns) ==
    IF SplitRejects(y) THEN {[kind |-> "ValueError", indices |-> <<>>]}
    ELSE IF ns < 1 THEN {[kind |-> "StopIteration", indices |-> <<>>]}
    ELSE {[kind |-> "indices", indices |-> pr[1] \o pr[2]] : pr \in SplitPairs(y)}

\* __len__ as it would be if it counted two halves of floor(N / 2) indices
LenOfTwoHalves(y) == NTrain(Len(y)) * 2

\* __len__, line 63
LenOf(y) == Len(y)

LabelVectors == UNION {[1..n -> 0..(NumClasses - 1)] : n \in 1..MaxN}

\* ------------------------------------------------------------------ search
embedding_size == 1536
n_trials == 20
max_epochs == 400

NoValue == -1
NoParams == [n_dims |-> 0, batch_size |-> 0, lr |-> "unset"]
NoReport == [finished |-> 0, value |-> NoValue, params |-> NoParams]

\* lines 70-74: n_dims in [embedding_size // 2, embedding_size * 3], batch_size
\* in [32, 64, 128], lr in [1e-5, 1e-3]; three mappings stand for the ranges:
\* the low ends, a middle point and the high ends.
ParamChoices ==
    { [n_dims |-> embedding_size \div 2, batch_size |-> 32,  lr |-> "1e-5"],
      [n_dims |-> embedding_size,        batch_size |-> 64,  lr |-> "1e-4"],
      [n_dims |-> embedding_size * 3,    batch_size |-> 128, lr |-> "1e-3"] }

BaseParams == [n_dims |-> embedding_size \div 2, batch_size |-> 32, lr |-> "1e-5"]
Levels == 0..MaxF1

\* A trial differs from the baseline outcome when it sampled other
\* hyperparameters or measured another test_f1.
Deviates(t) ==
    \/ t.params \notin {NoParams, BaseParams}
    \/ t.value \notin {NoValue, BaseF1}

\* the current trial may draw freely while fewer than MaxVaried earlier trials did
DrawsFreely ==
    Cardinality({i \in 1..(Len(trials) - 1) : Deviates(trials[i])}) < MaxVaried

InFlight == {"suggest", "load", "build", "fit", "test", "return"}

\* the driver as it would be if it started a trial while another is running
DriverIdleOrBusy == pc \in {"loop"} \cup InFlight

\* line 163: optimize(objective, n_trials=20) runs its trials in one loop, one
\* after the other: the next trial is asked for only between two objective calls
DriverIdle == pc = "loop"

\* the loop as it would be with an off-by-one bound
KeepGoingInclusive(n) == n <= n_trials

\* line 163: the loop runs while fewer than n_trials trials were created
KeepGoing(n) == n < n_trials

\* the comparison of direction="minimize"
Worse(v, b) == v < b

\* line 162: direction="maximize"
Better(v, b) == v > b

\* construction as it would be if the first set were kept and reused
CachedFor(n) == IF n = 0 THEN 1 ELSE n

\* lines 99-118: every objective call constructs its datasets, loaders,
\* sampler and model anew; n sets existed before
ConstructedFor(n) == n + 1

\* the return value as it would be if the key test_loss were read
ObjectiveValueLoss(results) == results[1].test_loss

\* lines 156-158: the value under test_f1 of the first test-result mapping
ObjectiveValue(results) == results[1].test_f1

Cur == Len(trials)

SearchInit ==
    /\ pc = "loop"
    /\ trials = <<>>
    /\ best_trial = 0
    /\ calls = <<>>
    /\ max_epochs_arg = 0
    /\ test_results = <<>>
    /\ built = 0
    /\ cur_obj = 0
    /\ fit_obj = <<>>
    /\ report = NoReport

\* line 163: the driver creates the next trial and calls objective(trial)
Ask ==
    /\ DriverIdle
    /\ KeepGoing(Len(trials))
    /\ trials' = Append(trials, [params |-> NoParams, value |-> NoValue,
                                 state |-> "RUNNING"])
    /\ pc' = "suggest"
    /\ calls' = <<>>
    /\ max_epochs_arg' = 0
    /\ test_results' = <<>>
    /\ cur_obj' = 0
    /\ UNCHANGED <<best_trial, built, fit_obj, report>>

\* lines 68-83: the trial's hyperparameters are sampled
Suggest ==
    /\ pc = "suggest"
    /\ \E p \in (IF DrawsFreely THEN ParamChoices ELSE {BaseParams}) :
         trials' = [trials EXCEPT ![Cur].params = p]
    /\ pc' = "load"
    /\ UNCHANGED <<best_trial, calls, max_epochs_arg, test_results, built,
                   cur_obj, fit_obj, report>>

\* lines 85-96: load_and_split_data() returns
LoadData ==
    /\ pc = "load"
    /\ pc' = "build"
    /\ UNCHANGED <<trials, best_trial, calls, max_epochs_arg, test_results, built,
                   cur_obj, fit_obj, report>>

\* lines 98-141: datasets, loaders, the sampler, the model, the checkpoint
\* callback and the logger are constructed
Build ==
    /\ pc = "build"
    /\ cur_obj' = ConstructedFor(built)
    /\ built' = ConstructedFor(built)
    /\ pc' = "fit"
    /\ UNCHANGED <<trials, best_trial, calls, max_epochs_arg, test_results,
                   fit_obj, report>>

\* lines 143-151: Trainer(max_epochs=400, ...), then trainer.fit returns
Fit ==
    /\ pc = "fit"
    /\ max_epochs_arg' = max_epochs
    /\ calls' = Append(calls, "fit")
    /\ fit_obj' = Append(fit_obj, cur_obj)
    /\ pc' = "test"
    /\ UNCHANGED <<trials, best_trial, test_results, built, cur_obj, report>>

\* line 154: trainer.test returns one mapping for the one test loader
Test ==
    /\ pc = "test"
    /\ calls' = Append(calls, "test")
    /\ \E f \in (IF DrawsFreely \/ trials[Cur].params # BaseParams
                  THEN Levels ELSE {BaseF1}), l \in Levels :
         test_results' = <<[test_f1 |-> f, test_loss |-> l]>>
    /\ pc' = "return"
    /\ UNCHANGED <<trials, best_trial, max_epochs_arg, built, cur_obj, fit_obj,
                   report>>

\* lines 155-158: objective returns; the driver stores the value with the
\* trial and updates its best-trial record (line 162: maximize)
Return ==
    /\ pc = "return"
    /\ LET v == ObjectiveValue(test_results) IN
         /\ trials' = [trials EXCEPT ![Cur].value = v, ![Cur].state = "COMPLETE"]
         /\ best_trial' = IF best_trial = 0 \/ Better(v, trials[best_trial].value)
                          THEN Cur ELSE best_trial
    /\ test_results' = <<>>
    /\ pc' = "loop"
    /\ UNCHANGED <<calls, max_epochs_arg, built, cur_obj, fit_obj, report>>

\* a failure as it would be if the driver caught it (optimize(..., catch=...))
FailCaught ==
    /\ pc \in {"load", "build", "fit", "test"}
    /\ trials' = [trials EXCEPT ![Cur].state = "FAIL"]
    /\ pc' = "loop"
    /\ UNCHANGED <<best_trial, calls, max_epochs_arg, test_results, built,
                   cur_obj, fit_obj, report>>

\* lines 96, 99-118, 151, 154: the call raises; nothing in objective or at
\* line 163 catches it, the driver marks the trial failed and the exception
\* leaves the script
Fail ==
    /\ pc \in {"load", "build", "fit", "test"}
    /\ trials' = [trials EXCEPT ![Cur].state = "FAIL"]
    /\ pc' = "aborted"
    /\ UNCHANGED <<best_trial, calls, max_epochs_arg, test_results, built,
                   cur_obj, fit_obj, report>>

\* lines 165-170: optimize has returned; the summary is printed
Report ==
    /\ DriverIdle
    /\ ~KeepGoing(Len(trials))
    /\ report' = [finished |-> Len(trials),
                  value |-> trials[best_trial].value,
                  params |-> trials[best_trial].params]
    /\ pc' = "exit"
    /\ UNCHANGED <<trials, best_trial, calls, max_epochs_arg, test_results, built,
                   cur_obj, fit_obj>>

SearchNext ==
    \/ (Ask /\ UNCHANGED svars)
    \/ (Suggest /\ UNCHANGED svars)
    \/ (LoadData /\ UNCHANGED svars)
    \/ (Build /\ UNCHANGED svars)
    \/ (Fit /\ UNCHANGED svars)
    \/ (Test /\ UNCHANGED svars)
    \/ (Return /\ UNCHANGED svars)
    \/ (Fail /\ UNCHANGED svars)
    \/ (Report /\ UNCHANGED svars)

\* the sampler of the search specification: not yet constructed
NoSampler ==
    /\ class_vector = <<>>
    /\ batch_size = 0
    /\ n_splits = 0
    /\ it_result = [kind |-> "none", indices |-> <<>>]
    /\ it_calls = 0
    /\ len_result = NotCalled

\* the state when line 163 begins
Init ==
    /\ SearchInit
    /\ NoSampler

Spec == Init /\ [][SearchNext]_vars

SamplerInit ==
    /\ SearchInit
    /\ class_vector \in LabelVectors
    /\ batch_size \in 1..MaxB
    /\ n_splits = NSplitsOf(Len(class_vector), batch_size)
    /\ it_result = [kind |-> "none", indices |-> <<>>]
    /\ it_calls = 0
    /\ len_result = NotCalled

\* __iter__, lines 59-60.  The caller drains the iterator of one pass before
\* it asks for the next (Drain), as the loader does once per epoch; the
\* call reads nothing of the previous result.
Iterate ==
    /\ it_result.kind = "none"
    /\ it_result' \in GenSampleArray(class_vector, n_splits)
    /\ it_calls' = IF it_calls < MaxCalls THEN it_calls + 1 ELSE it_calls
    /\ UNCHANGED <<class_vector, batch_size, n_splits, len_result>>

\* __len__, lines 62-63
Length ==
    /\ len_result' = LenOf(class_vector)
    /\ UNCHANGED <<class_vector, batch_size, n_splits, it_result, it_calls>>

\* the caller consumes the iterator returned at line 60 (or handles the error)
Drain ==
    /\ it_result.kind # "none"
    /\ it_result' = [kind |-> "none", indices |-> <<>>]
    /\ UNCHANGED <<class_vector, batch_size, n_splits, it_calls, len_result>>

SamplerNext ==
    \/ (Iterate /\ UNCHANGED dvars)
    \/ (Drain /\ UNCHANGED dvars)
    \/ (Length /\ UNCHANGED dvars)

SamplerSpec == SamplerInit /\ [][SamplerNext]_vars

\* The iteration alone: __len__ reads class_vector only and writes nothing
\* that __iter__ reads, so what __iter__ can return is the same without it.
IterNext ==
    \/ (Iterate /\ UNCHANGED dvars)
    \/ (Drain /\ UNCHANGED dvars)

IterSpec == SamplerInit /\ [][IterNext]_vars

\* ================================================================== claims
\* ------------------------------------------------------------- the sampler
N == Len(class_vector)

\* s lists every index of [0, n) exactly once and nothing else: it has n
\* entries and the set of its entries is [0, n)
IsPermutation(s, n) ==
    /\ Len(s) = n
    /\ {s[p] : p \in 1..Len(s)} = 0..(n - 1)

\* number of members of class c among positions lo..hi of s, looked up in y
CountIn(y, s, lo, hi, c) == Cardinality({p \in lo..hi : y[s[p] + 1] = c})

\* for every class, the first floor(n/2) entries hold half of its members to
\* within one, and the rest of the sequence holds the others
Balanced(y, s) ==
    LET h == Len(y) \div 2 IN
    \A c \in ClassesOf(y) :
        LET first == CountIn(y, s, 1, h, c)
            all   == Cardinality({p \in 1..Len(y) : y[p] = c})
        IN  /\ 2 * first - all <= 2
            /\ all - 2 * first <= 2
            /\ CountIn(y, s, h + 1, Len(s), c) = all - first

EveryClassTwice(y) ==
    \A c \in ClassesOf(y) : Cardinality({p \in 1..Len(y) : y[p] = c}) >= 2

Called == it_result.kind # "none"
Delivered == it_result.kind = "indices" /\ IsPermutation(it_result.indices, N)

\* C1, as stated: with n_splits >= 2, every __iter__ call on any label vector
\* returns a permutation of [0, N).
C1_EveryVectorPermuted == (Called /\ n_splits >= 2) => Delivered

\* C1, amended: with n_splits >= 2 and every class of the label vector having
\* at least two members, every __iter__ call (the first and each later one)
\* returns a permutation of [0, N).
C1_PermutationWhenClassesTwice ==
    (Called /\ n_splits >= 2 /\ EveryClassTwice(class_vector)) => Delivered

\* a second call on one instance returned a permutation of a two-class vector
C1_Witness ==
    /\ it_calls = 2
    /\ n_splits >= 2
    /\ N = 5
    /\ Cardinality(ClassesOf(class_vector)) = 2
    /\ Delivered
    /\ it_result.indices # <<0, 1, 2, 3, 4>>

\* C2: with N >= 2 * B, __len__ returns N whatever B is, also after __iter__
\* calls, and no step changes the stored label vector.
C2_LengthIsN ==
    /\ []((N >= 2 * batch_size /\ len_result # NotCalled) => len_result = N)
    /\ [][class_vector' = class_vector]_vars

\* __len__ answered 5 for an odd-length vector after two __iter__ calls
C2_Witness ==
    /\ len_result = 5
    /\ N = 5
    /\ batch_size = 2
    /\ it_calls = 2

\* C3: whenever __iter__ returns an index sequence, its first floor(N/2)
\* entries hold, for every class, half of the class's members to within one,
\* and the second half holds the remaining members.
C3_FirstHalfBalanced ==
    it_result.kind = "indices" => Balanced(class_vector, it_result.indices)

\* an odd-length two-class vector was split, a class of two members giving
\* one member to each half
C3_Witness ==
    /\ it_result.kind = "indices"
    /\ N = 5
    /\ \E c \in ClassesOf(class_vector) :
         /\ ClassCounts(class_vector)[c] = 2
         /\ CountIn(class_vector, it_result.indices, 1, 2, c) = 1
    /\ \E c \in ClassesOf(class_vector) : ClassCounts(class_vector)[c] = 3

\* C9, as stated: n_splits is floor(N / B), and with n_splits of 0 or 1 a call
\* of __iter__ does not deliver a class-balanced permutation of [0, N).
C9_DegenerateBelowTwo ==
    /\ n_splits = N \div batch_size
    /\ (n_splits < 2 /\ Called) =>
           ~(Delivered /\ Balanced(class_vector, it_result.indices))

\* C9, amended: in every state n_splits is floor(N / B) of the vector and
\* batch size the sampler was constructed from (no call changes it); with
\* n_splits = 0 a call of __iter__ delivers no index sequence (it raises);
\* with n_splits = 1 it delivers what it delivers for n_splits >= 2: a
\* class-balanced permutation of [0, N) whenever every class has at least
\* two members.
C9_DegenerateOnlyAtZero ==
    /\ n_splits = N \div batch_size
    /\ (n_splits = 0 /\ Called) =>
           it_result.kind \in {"StopIteration", "ValueError"}
    /\ (n_splits = 1 /\ Called /\ EveryClassTwice(class_vector)) =>
           (Delivered /\ Balanced(class_vector, it_result.indices))

\* with N = 4, B = 3 (n_splits = 1) a second call permuted a two-class vector
C9_Witness ==
    /\ n_splits = 1
    /\ N = 4
    /\ batch_size = 3
    /\ Cardinality(ClassesOf(class_vector)) = 2
    /\ Delivered
    /\ Balanced(class_vector, it_result.indices)
    /\ it_calls = 2

\* ------------------------------------------------------------- the search
Complete == {i \in 1..Len(trials) : trials[i].state = "COMPLETE"}
Running == {i \in 1..Len(trials) : trials[i].state = "RUNNING"}
Failed == {i \in 1..Len(trials) : trials[i].state = "FAIL"}

C5_ExactlyTwentyTrials ==
    /\ Len(trials) <= 20
    /\ pc = "exit" =>
           /\ Len(trials) = 20
           /\ Complete = 1..20
           /\ report.finished = 20
    /\ (pc = "loop" /\ Len(trials) < 20) =>
           /\ ENABLED (Ask /\ UNCHANGED svars)
           /\ ~ENABLED (Report /\ UNCHANGED svars)
    /\ (pc = "loop" /\ Len(trials) = 20) => ~ENABLED (Ask /\ UNCHANGED svars)
    /\ pc \notin {"exit", "aborted"} => ENABLED SearchNext

\* the run ended after 20 trials, one of which beat the baseline early on
C5_Witness ==
    /\ pc = "exit"
    /\ Len(trials) = 20
    /\ trials[2].value = 2

\* C6: at most one trial is running; while objective runs it is the newest
\* trial, and every earlier trial is complete with its value stored, so no
\* trial begins before its predecessor's value was returned.
C6_OneTrialAtATime ==
    /\ Cardinality(Running) <= 1
    /\ pc \in InFlight => trials[Cur].state = "RUNNING"
    /\ pc \in {"loop", "exit"} => Running = {}
    /\ \A i \in 1..(Len(trials) - 1) :
         trials[i].state = "COMPLETE" /\ trials[i].value # NoValue

\* the third trial is training, the two before it are complete
C6_Witness ==
    /\ pc = "test"
    /\ Len(trials) = 3
    /\ Complete = {1, 2}
    /\ Running = {3}

\* C7: once a trial is complete, the best-trial record is a complete trial
\* whose value is the largest of all complete trials; the summary prints the
\* largest test_f1 of the 20 trials with the parameters of the trial that
\* has it.
C7_BestIsMaximum ==
    /\ Complete = {} => best_trial = 0
    /\ Complete # {} =>
           /\ best_trial \in Complete
           /\ \A j \in Complete : trials[best_trial].value >= trials[j].value
    /\ pc = "exit" =>
           /\ \A j \in 1..20 : report.value >= trials[j].value
           /\ report.value = trials[best_trial].value
           /\ report.params = trials[best_trial].params

\* the summary names the seventh trial, which alone beat the baseline
C7_Witness ==
    /\ pc = "exit"
    /\ best_trial = 7
    /\ report.value = 2
    /\ report.params.batch_size = 128
    /\ trials[1].value = 1

\* C8: a failure in loading, building, training or testing leaves the trial
\* without a value and ends the run: a failed trial exists only in the
\* aborted state, where no step is possible and nothing was reported.
C8_FailureAbortsRun ==
    /\ Failed # {} => pc = "aborted"
    /\ pc = "aborted" =>
           /\ Failed = {Cur}
           /\ trials[Cur].value = NoValue
           /\ report = NoReport
           /\ ~ENABLED SearchNext

\* the fifth trial failed in trainer.test, after four complete trials
C8_Witness ==
    /\ pc = "aborted"
    /\ Len(trials) = 5
    /\ calls = <<"fit">>
    /\ Complete = 1..4
    /\ best_trial = 3

\* C10: the trial history only grows, by one entry at a time and one per
\* completed trial; a completed trial's record never changes; and every
\* trial hands trainer.fit a set of sampler, loaders and model constructed
\* in that trial, never one of an earlier trial.
C10_HistoryAppendOnly ==
    /\ [](/\ Cardinality(Complete) =
               Len(trials) - (IF pc \in InFlight \cup {"aborted"} THEN 1 ELSE 0)
          /\ Cardinality(Range(fit_obj)) = Len(fit_obj)
          /\ cur_obj # 0 => cur_obj \notin Range(SubSeq(fit_obj, 1, Cur - 1)))
    /\ [][trials' # trials =>
             /\ Len(trials') \in {Len(trials), Len(trials) + 1}
             /\ \A i \in Complete : trials'[i] = trials[i]]_vars

\* four trials are complete, each trained on its own set
C10_Witness ==
    /\ pc = "loop"
    /\ Len(trials) = 4
    /\ fit_obj = <<1, 2, 3, 4>>
    /\ trials[2].value = 0
    /\ trials[2].params.batch_size = 64

====
